---------------------------- MODULE Spec2Model ----------------------------
(***************************************************************************)
(* Model of main.py: the two-node LangGraph flow (ValidateCustomer ->      *)
(* ResolveIssue), the node functions and the interactive loop.             *)
(*                                                                         *)
(* Text is a sequence of one-character strings, so that strip, upper,      *)
(* lower, startswith, concatenation and ast.literal_eval are computed on   *)
(* the characters as Python computes them.  A character outside ASCII is   *)
(* written by its code point ("U+201A").                                   *)
(***************************************************************************)
EXTENDS Integers, Sequences, FiniteSets, TLC

(***************************************************************************)
(* Bounds of the model.                                                    *)
(***************************************************************************)
MaxTurns == 2

(***************************************************************************)
(* String literals of main.py.                                             *)
(***************************************************************************)
EXTRACTION_APOLOGY ==
    <<"S","o","r","r","y",","," ","I"," ","c","o","u","l","d","n","'","t",
      " ","e","x","t","r","a","c","t"," ","y","o","u","r"," ","d","e","t",
      "a","i","l","s","."," ","P","l","e","a","s","e"," ","m","e","n","t",
      "i","o","n"," ","y","o","u","r"," ","n","a","m","e",","," ","p","h",
      "o","n","e"," ","n","u","m","b","e","r",","," ","o","r"," ","a","d",
      "d","r","e","s","s",".">>

LOOKUP_APOLOGY ==
    <<"S","o","r","r","y",","," ","w","e"," ","c","o","u","l","d","n","'",
      "t"," ","f","i","n","d"," ","y","o","u","r"," ","d","e","t","a","i",
      "l","s","."," ","P","l","e","a","s","e"," ","v","e","r","i","f","y",
      " ","y","o","u","r"," ","i","n","f","o"," ","a","n","d"," ","t","r",
      "y"," ","a","g","a","i","n",".">>

VALIDATION_ERROR_PREFIX ==
    <<"U+201A","U+00F9","U+00E5"," ","V","a","l","i","d","a","t","i","o",
      "n"," ","e","r","r","o","r",":"," ">>

RESOLUTION_FAILED_PREFIX ==
    <<"U+201A","U+00F9","U+00E5"," ","I","s","s","u","e"," ","r","e","s",
      "o","l","u","t","i","o","n"," ","f","a","i","l","e","d",":"," ">>

FINAL_ANSWER_PREFIX ==
    <<"F","i","n","a","l"," ","A","n","s","w","e","r",":"," ">>

COUNT_QUERY_PREFIX ==
    <<"S","E","L","E","C","T"," ","C","O","U","N","T","(","*",")"," ","F",
      "R","O","M"," ","c","u","s","t","o","m","e","r","_","i","n","f","o",
      " ">>

WHERE_PREFIX ==
    <<"W","H","E","R","E"," ">>

HUMAN_MSG_1 ==
    <<"T","h","e","r","e"," ","i","s"," ","a"," ","'">>

HUMAN_MSG_2 ==
    <<"'"," ","i","s","s","u","e"," ","r","e","p","o","r","t","e","d"," ",
      "a","t"," ","y","o","u","r"," ","a","d","d","r","e","s","s"," ","(">>

HUMAN_MSG_3 ==
    <<")","."," ","I","t"," ","i","s"," ","e","x","p","e","c","t","e","d",
      " ","t","o"," ","b","e"," ","r","e","s","o","l","v","e","d"," ","b",
      "y"," ">>

HUMAN_MSG_4 ==
    <<".">>

NONE_MARKER == <<"N","O","N","E">>

WHERE_WORD == <<"w","h","e","r","e">>

(***************************************************************************)
(* Python str methods on character sequences.                              *)
(***************************************************************************)
LowerLetters ==
    <<"a","b","c","d","e","f","g","h","i","j","k","l","m",
      "n","o","p","q","r","s","t","u","v","w","x","y","z">>

UpperLetters ==
    <<"A","B","C","D","E","F","G","H","I","J","K","L","M",
      "N","O","P","Q","R","S","T","U","V","W","X","Y","Z">>

Digits == <<"0","1","2","3","4","5","6","7","8","9">>

Whitespace == {" ", "\t", "\n"}

IndexIn(c, alphabet) ==
    IF \E i \in 1..Len(alphabet) : alphabet[i] = c
    THEN CHOOSE i \in 1..Len(alphabet) : alphabet[i] = c
    ELSE 0

UpperChar(c) ==
    IF IndexIn(c, LowerLetters) > 0 THEN UpperLetters[IndexIn(c, LowerLetters)] ELSE c

LowerChar(c) ==
    IF IndexIn(c, UpperLetters) > 0 THEN LowerLetters[IndexIn(c, UpperLetters)] ELSE c

Upper(s) == [i \in 1..Len(s) |-> UpperChar(s[i])]

Lower(s) == [i \in 1..Len(s) |-> LowerChar(s[i])]

RECURSIVE LStripSet(_, _)
LStripSet(s, chars) ==
    IF s # <<>> /\ Head(s) \in chars THEN LStripSet(Tail(s), chars) ELSE s

RECURSIVE RStripSet(_, _)
RStripSet(s, chars) ==
    IF s # <<>> /\ s[Len(s)] \in chars
    THEN RStripSet(SubSeq(s, 1, Len(s) - 1), chars)
    ELSE s

Strip(s) == RStripSet(LStripSet(s, Whitespace), Whitespace)

StartsWith(s, prefix) ==
    /\ Len(s) >= Len(prefix)
    /\ SubSeq(s, 1, Len(prefix)) = prefix

(***************************************************************************)
(* Texts of the exceptions the Python runtime raises in the node           *)
(* functions.  ast.literal_eval reports a family of SyntaxError texts; the *)
(* model keeps one text for all of them, since the node only embeds str(e) *)
(* in the reply.                                                           *)
(***************************************************************************)
MSG_INVALID_SYNTAX ==
    <<"i","n","v","a","l","i","d"," ","s","y","n","t","a","x"," ","(","<",
      "u","n","k","n","o","w","n",">",","," ","l","i","n","e"," ","1",")">>

MSG_LIST_INDEX ==
    <<"l","i","s","t"," ","i","n","d","e","x"," ","o","u","t"," ","o","f",
      " ","r","a","n","g","e">>

MSG_TUPLE_INDEX ==
    <<"t","u","p","l","e"," ","i","n","d","e","x"," ","o","u","t"," ","o",
      "f"," ","r","a","n","g","e">>

MSG_STRING_INDEX ==
    <<"s","t","r","i","n","g"," ","i","n","d","e","x"," ","o","u","t"," ",
      "o","f"," ","r","a","n","g","e">>

MSG_INT_SUBSCRIPT ==
    <<"'","i","n","t","'"," ","o","b","j","e","c","t"," ","i","s"," ","n",
      "o","t"," ","s","u","b","s","c","r","i","p","t","a","b","l","e">>

MSG_GT_PREFIX ==
    <<"'",">","'"," ","n","o","t"," ","s","u","p","p","o","r","t","e","d",
      " ","b","e","t","w","e","e","n"," ","i","n","s","t","a","n","c","e",
      "s"," ","o","f"," ","'">>

MSG_GT_SUFFIX ==
    <<"'"," ","a","n","d"," ","'","i","n","t","'">>

MSG_NONE_STRIP ==
    <<"'","N","o","n","e","T","y","p","e","'"," ","o","b","j","e","c","t",
      " ","h","a","s"," ","n","o"," ","a","t","t","r","i","b","u","t","e",
      " ","'","s","t","r","i","p","'">>

TYPENAME_STR ==
    <<"s","t","r">>

TYPENAME_LIST ==
    <<"l","i","s","t">>

TYPENAME_TUPLE ==
    <<"t","u","p","l","e">>

Exc(type, text) == [type |-> type, text |-> text]

(***************************************************************************)
(* Python values produced by ast.literal_eval:                             *)
(*   [t |-> "int", v |-> n]      [t |-> "str", v |-> characters]           *)
(*   [t |-> "tuple", v |-> <<values>>]   [t |-> "list", v |-> <<values>>]  *)
(***************************************************************************)
PyInt(n) == [t |-> "int", v |-> n]

PyStr(s) == [t |-> "str", v |-> s]

PyTuple(vs) == [t |-> "tuple", v |-> vs]

PyList(vs) == [t |-> "list", v |-> vs]

ParseOk(val, pos) == [ok |-> TRUE, val |-> val, pos |-> pos]

ParseFail == [ok |-> FALSE, val |-> PyInt(0), pos |-> 0]

IsDigit(c) == IndexIn(c, Digits) > 0

RECURSIVE SkipWs(_, _)
SkipWs(s, i) ==
    IF i <= Len(s) /\ s[i] \in Whitespace THEN SkipWs(s, i + 1) ELSE i

RECURSIVE DigitsEnd(_, _)
DigitsEnd(s, i) ==
    IF i <= Len(s) /\ IsDigit(s[i]) THEN DigitsEnd(s, i + 1) ELSE i

RECURSIVE DigitsValue(_, _, _, _)
DigitsValue(s, i, j, acc) ==
    IF i >= j THEN acc
    ELSE DigitsValue(s, i + 1, j, acc * 10 + (IndexIn(s[i], Digits) - 1))

\* A decimal integer literal; a leading zero on a longer literal is an error.
ParseInt(s, i) ==
    LET j == DigitsEnd(s, i) IN
    IF s[i] = "0" /\ j > i + 1 /\ \E k \in i..(j - 1) : s[k] # "0"
    THEN ParseFail
    ELSE ParseOk(PyInt(DigitsValue(s, i, j, 0)), j)

RECURSIVE QuoteEnd(_, _)
QuoteEnd(s, i) ==
    IF i > Len(s) THEN 0
    ELSE IF s[i] = "'" THEN i
    ELSE IF s[i] = "\n" THEN 0
    ELSE QuoteEnd(s, i + 1)

\* A single-quoted string literal without escapes, starting at s[i] = "'".
ParseStr(s, i) ==
    LET j == QuoteEnd(s, i + 1) IN
    IF j = 0 THEN ParseFail
    ELSE ParseOk(PyStr(SubSeq(s, i + 1, j - 1)), j + 1)

RECURSIVE ParseValue(_, _)
RECURSIVE ParseItems(_, _, _, _, _)
RECURSIVE ParseAfterItem(_, _, _, _, _)

\* The closing bracket at s[j]: a list, a tuple, or a parenthesised value.
CloseItems(j, close, acc, sawComma) ==
    IF close = "]" THEN ParseOk(PyList(acc), j + 1)
    ELSE IF Len(acc) = 1 /\ ~sawComma THEN ParseOk(acc[1], j + 1)
    ELSE ParseOk(PyTuple(acc), j + 1)

ParseItems(s, i, close, acc, sawComma) ==
    LET j == SkipWs(s, i) IN
    IF j > Len(s) THEN ParseFail
    ELSE IF s[j] = close THEN CloseItems(j, close, acc, sawComma)
    ELSE LET r == ParseValue(s, j) IN
         IF ~r.ok THEN ParseFail
         ELSE ParseAfterItem(s, r.pos, close, Append(acc, r.val), sawComma)

ParseAfterItem(s, i, close, acc, sawComma) ==
    LET j == SkipWs(s, i) IN
    IF j > Len(s) THEN ParseFail
    ELSE IF s[j] = close THEN CloseItems(j, close, acc, sawComma)
    ELSE IF s[j] = "," THEN ParseItems(s, j + 1, close, acc, TRUE)
    ELSE ParseFail

ParseValue(s, i) ==
    IF i > Len(s) THEN ParseFail
    ELSE IF IsDigit(s[i]) THEN ParseInt(s, i)
    ELSE IF s[i] = "'" THEN ParseStr(s, i)
    ELSE IF s[i] = "[" THEN ParseItems(s, i + 1, "]", <<>>, FALSE)
    ELSE IF s[i] = "(" THEN ParseItems(s, i + 1, ")", <<>>, FALSE)
    ELSE ParseFail

RECURSIVE SkipNewlines(_, _)
SkipNewlines(s, i) ==
    IF i <= Len(s) /\ s[i] = "\n" THEN SkipNewlines(s, i + 1) ELSE i

\* ast.literal_eval on the literals the store and the chain emit: integers,
\* single-quoted strings, tuples and lists.  Leading spaces and tabs are
\* stripped, blank lines skipped, and the whole text must be one expression.
literal_eval(text) ==
    LET s == LStripSet(text, {" ", "\t"})
        r == ParseValue(s, SkipNewlines(s, 1))
    IN  IF r.ok /\ SkipWs(s, r.pos) > Len(s)
        THEN [ok |-> TRUE, val |-> r.val]
        ELSE [ok |-> FALSE, exc |-> Exc("SyntaxError", MSG_INVALID_SYNTAX)]

(***************************************************************************)
(* str() and repr() of a parsed value, as an f-string renders it.          *)
(***************************************************************************)
RECURSIVE IntDigits(_)
IntDigits(n) ==
    IF n < 10 THEN <<Digits[n + 1]>>
    ELSE IntDigits(n \div 10) \o <<Digits[(n % 10) + 1]>>

RECURSIVE Repr(_)
RECURSIVE ReprItems(_)

ReprItems(vs) ==
    IF vs = <<>> THEN <<>>
    ELSE IF Len(vs) = 1 THEN Repr(vs[1])
    ELSE Repr(vs[1]) \o <<",", " ">> \o ReprItems(Tail(vs))

Repr(val) ==
    IF val.t = "int" THEN IntDigits(val.v)
    ELSE IF val.t = "str" THEN <<"'">> \o val.v \o <<"'">>
    ELSE IF val.t = "list" THEN <<"[">> \o ReprItems(val.v) \o <<"]">>
    ELSE IF Len(val.v) = 1 THEN <<"(">> \o Repr(val.v[1]) \o <<",", ")">>
    ELSE <<"(">> \o ReprItems(val.v) \o <<")">>

Str(val) == IF val.t = "str" THEN val.v ELSE Repr(val)

TypeName(val) ==
    IF val.t = "str" THEN TYPENAME_STR
    ELSE IF val.t = "list" THEN TYPENAME_LIST
    ELSE TYPENAME_TUPLE

\* val[0]: the first element, or the exception Python raises.
Subscript0(val) ==
    IF val.t = "int"
    THEN [ok |-> FALSE, exc |-> Exc("TypeError", MSG_INT_SUBSCRIPT)]
    ELSE IF val.v = <<>>
    THEN [ok |-> FALSE,
          exc |-> Exc("IndexError",
                      IF val.t = "str" THEN MSG_STRING_INDEX
                      ELSE IF val.t = "list" THEN MSG_LIST_INDEX
                      ELSE MSG_TUPLE_INDEX)]
    ELSE IF val.t = "str" THEN [ok |-> TRUE, val |-> PyStr(<<val.v[1]>>)]
    ELSE [ok |-> TRUE, val |-> val.v[1]]

\* a comparison that lets a count of zero through
GreaterThanZero_OrEqual(val) ==
    IF val.t = "int" THEN [ok |-> TRUE, val |-> val.v >= 0]
    ELSE [ok |-> FALSE,
          exc |-> Exc("TypeError",
                      MSG_GT_PREFIX \o TypeName(val) \o MSG_GT_SUFFIX)]

\* val > 0: the comparison, or the TypeError for a value that is no number.
GreaterThanZero(val) ==
    IF val.t = "int" THEN [ok |-> TRUE, val |-> val.v > 0]
    ELSE [ok |-> FALSE,
          exc |-> Exc("TypeError",
                      MSG_GT_PREFIX \o TypeName(val) \o MSG_GT_SUFFIX)]

(***************************************************************************)
(* GraphState.  Optional[str] is the empty sequence for None and a         *)
(* one-element sequence holding the text otherwise.                        *)
(***************************************************************************)
None == <<>>

Some(x) == <<x>>

Statuses == {"started", "validated", "not_found", "resolved"}

Message(role, content) == [role |-> role, content |-> content]

GraphState(messages, status, user_query) ==
    [messages |-> messages, status |-> status, user_query |-> user_query]

(***************************************************************************)
(* Outcome of a call to a collaborator (llm.invoke, db.run,                *)
(* sql_chain.invoke): the text it returns, or the exception it raises with *)
(* the text of str(e).                                                     *)
(***************************************************************************)
Returned(text) == [kind |-> "return", type |-> "str", text |-> text]

Raised(type, text) == [kind |-> "raise", type |-> type, text |-> text]

Call(callee, arg, out) == [callee |-> callee, arg |-> arg, out |-> out]

\* What a node call ends in: the state it returns or the exception that
\* escapes it, with the collaborator calls it made and, for the validation
\* node, the count query it built.
NodeReturn(st, calls, query) ==
    [kind |-> "return", state |-> Some(st), exc |-> None,
     calls |-> calls, query |-> query]

NodeRaise(type, text, calls) ==
    [kind |-> "raise", state |-> None, exc |-> Some(Raised(type, text)),
     calls |-> calls, query |-> None]

(***************************************************************************)
(* validate_customer_node                                                  *)
(***************************************************************************)
\* line 71: the count query for a trimmed clause that is not NONE
CountQuery(where_clause) ==
    COUNT_QUERY_PREFIX \o
        (IF StartsWith(Lower(Strip(where_clause)), WHERE_WORD)
         THEN where_clause
         ELSE WHERE_PREFIX \o where_clause)

\* an except branch that leaves the status as it found it
ValidationError_KeepStatus(state, user_input, text, calls, query) ==
    NodeReturn(GraphState(Append(state.messages,
                                 Message("assistant",
                                         VALIDATION_ERROR_PREFIX \o text)),
                          state.status, Some(user_input)),
               calls, query)

\* lines 92-100: the except branch
ValidationError(state, user_input, text, calls, query) ==
    NodeReturn(GraphState(Append(state.messages,
                                 Message("assistant",
                                         VALIDATION_ERROR_PREFIX \o text)),
                          "not_found", Some(user_input)),
               calls, query)

\* lines 73-91: the try block, given the outcome of db.run(query)
CountAndClassify(state, user_input, query, calls, dbOut) ==
    LET parsed_result == literal_eval(dbOut.text)
        first == Subscript0(parsed_result.val)
        count == Subscript0(first.val)
        positive == GreaterThanZero(count.val)
    IN  IF dbOut.kind = "raise"
        THEN ValidationError(state, user_input, dbOut.text, calls, query)
        ELSE IF ~parsed_result.ok
        THEN ValidationError(state, user_input, parsed_result.exc.text, calls, query)
        ELSE IF ~first.ok
        THEN ValidationError(state, user_input, first.exc.text, calls, query)
        ELSE IF ~count.ok
        THEN ValidationError(state, user_input, count.exc.text, calls, query)
        ELSE IF ~positive.ok
        THEN ValidationError(state, user_input, positive.exc.text, calls, query)
        ELSE IF positive.val
        THEN NodeReturn(GraphState(state.messages, "validated", Some(user_input)),
                        calls, query)
        ELSE NodeReturn(GraphState(Append(state.messages,
                                          Message("assistant", LOOKUP_APOLOGY)),
                                   "not_found", Some(user_input)),
                        calls, query)

\* a NONE test that misses "none" and "None"
IsNone_CaseSensitive(where_clause) == where_clause = NONE_MARKER

\* line 61
IsNone(where_clause) == Upper(where_clause) = NONE_MARKER

validate_customer_node(state, llmOut, dbOut) ==
    IF state.messages = <<>>
    THEN NodeRaise("IndexError", MSG_LIST_INDEX, <<>>)
    ELSE
    LET user_input == state.messages[Len(state.messages)].content
        llmCall == Call("llm.invoke", user_input, llmOut)
        where_clause == Strip(llmOut.text)
        query == CountQuery(where_clause)
        dbCall == Call("db.run", query, dbOut)
    IN  IF llmOut.kind = "raise"
        THEN NodeRaise(llmOut.type, llmOut.text, <<llmCall>>)
        ELSE IF IsNone(where_clause)
        THEN NodeReturn(GraphState(Append(state.messages,
                                          Message("assistant", EXTRACTION_APOLOGY)),
                                   "not_found", Some(user_input)),
                        <<llmCall>>, None)
        ELSE CountAndClassify(state, user_input, Some(query),
                              <<llmCall, dbCall>>, dbOut)

(***************************************************************************)
(* resolve_issue_node                                                      *)
(***************************************************************************)
\* Python truth value of a parsed literal (line 139, "if parsed and ...")
Truthy(val) == IF val.t = "int" THEN val.v # 0 ELSE val.v # <<>>

\* a sentence with the address and the issue in each other's place
HumanMsg_Swapped(address, issue, datetime_obj) ==
    HUMAN_MSG_1 \o Str(address) \o HUMAN_MSG_2 \o Str(issue)
        \o HUMAN_MSG_3 \o Str(datetime_obj) \o HUMAN_MSG_4

\* line 141: the sentence built from the unpacked tuple
HumanMsg(address, issue, datetime_obj) ==
    HUMAN_MSG_1 \o Str(issue) \o HUMAN_MSG_2 \o Str(address)
        \o HUMAN_MSG_3 \o Str(datetime_obj) \o HUMAN_MSG_4

\* lines 137-146: the reply for text that starts with "["
ListResponse(raw_content) ==
    LET parsed == literal_eval(raw_content)
        first == Subscript0(parsed.val)
        row == first.val
    IN  IF ~parsed.ok THEN FINAL_ANSWER_PREFIX \o raw_content
        ELSE IF ~Truthy(parsed.val) THEN FINAL_ANSWER_PREFIX \o raw_content
        ELSE IF ~first.ok THEN FINAL_ANSWER_PREFIX \o raw_content
        ELSE IF row.t # "tuple" THEN FINAL_ANSWER_PREFIX \o raw_content
        ELSE IF Len(row.v) # 3 THEN FINAL_ANSWER_PREFIX \o raw_content
        ELSE FINAL_ANSWER_PREFIX \o HumanMsg(row.v[1], row.v[2], row.v[3])

\* a reply that gets the prefix whatever the chain returned
FinalResponse_AlwaysPrefix(raw_content) ==
    IF StartsWith(Strip(raw_content), <<"[">>)
    THEN ListResponse(raw_content)
    ELSE FINAL_ANSWER_PREFIX \o raw_content

\* lines 136-148
FinalResponse(raw_content) ==
    IF StartsWith(Strip(raw_content), <<"[">>)
    THEN ListResponse(raw_content)
    ELSE raw_content

\* an except branch that answers with the failure message alone
ResolutionFailed_Replace(state, text, calls) ==
    NodeReturn(GraphState(<<Message("assistant",
                                    RESOLUTION_FAILED_PREFIX \o text)>>,
                          "resolved", state.user_query),
               calls, None)

\* an except branch that forgets the user's query
ResolutionFailed_DropQuery(state, text, calls) ==
    NodeReturn(GraphState(Append(state.messages,
                                 Message("assistant",
                                         RESOLUTION_FAILED_PREFIX \o text)),
                          "resolved", None),
               calls, None)

\* lines 155-163: the except branch
ResolutionFailed(state, text, calls) ==
    NodeReturn(GraphState(Append(state.messages,
                                 Message("assistant",
                                         RESOLUTION_FAILED_PREFIX \o text)),
                          "resolved", state.user_query),
               calls, None)

\* a node whose call to the chain stands outside the try block
resolve_issue_node_NoCatch(state, chainOut) ==
    IF state.user_query = None
    THEN ResolutionFailed(state, MSG_NONE_STRIP, <<>>)
    ELSE
    LET chainCall == Call("sql_chain.invoke", Strip(state.user_query[1]), chainOut)
    IN  IF chainOut.kind = "raise"
        THEN NodeRaise(chainOut.type, chainOut.text, <<chainCall>>)
        ELSE NodeReturn(GraphState(Append(state.messages,
                                          Message("assistant",
                                                  FinalResponse(chainOut.text))),
                                   "resolved", state.user_query),
                        <<chainCall>>, None)

\* chainOut is the outcome of sql_chain.invoke; the text of a returned
\* outcome is result.get("result", "").
resolve_issue_node(state, chainOut) ==
    IF state.user_query = None
    THEN ResolutionFailed(state, MSG_NONE_STRIP, <<>>)
    ELSE
    LET chainCall == Call("sql_chain.invoke", Strip(state.user_query[1]), chainOut)
    IN  IF chainOut.kind = "raise"
        THEN ResolutionFailed(state, chainOut.text, <<chainCall>>)
        ELSE NodeReturn(GraphState(Append(state.messages,
                                          Message("assistant",
                                                  FinalResponse(chainOut.text))),
                                   "resolved", state.user_query),
                        <<chainCall>>, None)

(***************************************************************************)
(* Inputs: what the user types and what the collaborators answer.          *)
(***************************************************************************)
MaxPad == 1

\* contents of the model's reply to WHERE_PROMPT, before padding
ClauseTexts ==
    {
    <<"N","O","N","E">>,
    <<"n","o","n","e">>,
    <<"N","o","n","e">>,
    <<"n","a","m","e","=","'","a","'">>,
    <<"W","H","E","R","E"," ","n","a","m","e","=","'","a","'">>,
    <<"w","h","e","r","e"," ","n","a","m","e","=","'","a","'">>,
    <<"w","h","e","r","e","v","e","r","=","1">>,
    <<>>
    }

\* texts db.run returns for the count query
CountTexts ==
    {
    <<"[","(","0",",",")","]">>,
    <<"[","(","3",",",")","]">>,
    <<"[","(","1","2",",",")","]">>,
    <<" ","[","(","1",",",")","]","\n">>,
    <<"[","]">>,
    <<>>,
    <<"[","(","'","a","'",",",")","]">>,
    <<"[","(","3",",",")">>,
    <<"3">>,
    <<"[","(",")","]">>,
    <<"[","(","0",","," ","5",")","]">>
    }

\* texts sql_chain.invoke returns under the key 'result'
ChainTexts ==
    {
    <<"H","i">>,
    <<" ","H","i","\n">>,
    <<>>,
    <<"F","i","n","a","l"," ","A","n","s","w","e","r",":"," ","o","k">>,
    <<"[","(","'","A","'",","," ","'","N","'",","," ","'","1","'",")","]">>,
    <<" ","[","(","'","A","'",","," ","'","N","'",","," ","'","1","'",")",
      "]">>,
    <<"\n","[","(","'","A","'",",","'","N","'",",","'","1","'",")","]","\n">>,
    <<"[","(","'","A","'",","," ","'","N","'",")","]">>,
    <<"[","(","'","A","'",","," ","'","N","'",","," ","'","1","'",","," ",
      "'","x","'",")","]">>,
    <<"[","]">>,
    <<"[","'","A","'","]">>,
    <<"[","(">>,
    <<"[","(",")","]">>,
    <<"[","(","1",","," ","2",","," ","3",")","]">>,
    <<"[","[","1",","," ","2",","," ","3","]","]">>,
    <<"[","(","'","A","'",","," ","'","N","'",","," ","'","1","'",")",",",
      " ","(","'","B","'",","," ","'","M","'",","," ","'","2","'",")","]">>,
    <<"[","x","]">>,
    <<"[","(","'","A","'",","," ","(","1",",",")",","," ","[","2",","," ",
      "'","b","'","]",")","]">>
    }

\* str(e) of an exception raised by a collaborator
ErrorTexts ==
    {
    <<"d","o","w","n">>
    }

RECURSIVE SeqsUpTo(_, _)
SeqsUpTo(chars, n) ==
    IF n = 0 THEN {<<>>}
    ELSE LET shorter == SeqsUpTo(chars, n - 1)
         IN  shorter \cup {<<c>> \o s : c \in chars, s \in {t \in shorter : Len(t) = n - 1}}

\* whitespace the model may put around its reply
PadChars == {" ", "\n"}

Pads == SeqsUpTo(PadChars, MaxPad)

LlmTexts == {l \o c \o r : l \in Pads, c \in ClauseTexts, r \in Pads}

Outcomes(texts, errorType) ==
    {Returned(t) : t \in texts} \cup {Raised(errorType, t) : t \in ErrorTexts}

\* outcomes of llm.invoke, db.run and sql_chain.invoke when a node function
\* is called on its own; a result dict without the key 'result' reads as the
\* empty text, which is among ChainTexts
LlmOutcomes == Outcomes(LlmTexts, "ConnectError")

DbOutcomes == Outcomes(CountTexts, "OperationalError")

ChainOutcomes == Outcomes(ChainTexts, "OperationalError")

\* the replies, count results and chain results drawn in a turn of the
\* interactive loop: one or two for each branch of the node functions
FlowClauseTexts ==
    {
    <<"N","O","N","E">>,
    <<" ","n","o","n","e","\n">>,
    <<"n","a","m","e","=","'","a","'">>,
    <<"W","H","E","R","E"," ","n","a","m","e","=","'","a","'">>,
    <<"w","h","e","r","e","v","e","r","=","1">>
    }

FlowCountTexts ==
    {
    <<"[","(","0",",",")","]">>,
    <<"[","(","3",",",")","]">>,
    <<"[","]">>,
    <<"[","(","'","a","'",",",")","]">>
    }

FlowChainTexts ==
    {
    <<"H","i">>,
    <<"[","(","'","A","'",","," ","'","N","'",","," ","'","1","'",")","]">>,
    <<"[","(","'","A","'",","," ","'","N","'",")","]">>,
    <<"[","(">>
    }

\* lines typed at the prompt
InputLines ==
    {
    <<"e","x","i","t">>,
    <<" ","Q","u","i","t"," ">>,
    <<"E","X","I","T","\t">>,
    <<"h","i">>,
    <<" ","a"," ">>,
    <<"e","x","i","t","s">>
    }

FlowLlmOutcomes == Outcomes(FlowClauseTexts, "ConnectError")

FlowDbOutcomes == Outcomes(FlowCountTexts, "OperationalError")

FlowChainOutcomes == Outcomes(FlowChainTexts, "OperationalError")

(***************************************************************************)
(* State of the program.                                                   *)
(*   pc        where the interactive loop stands: "input" (line 187),      *)
(*             "ValidateCustomer" / "ResolveIssue" (the node about to      *)
(*             run inside graph.invoke), "END" (graph.invoke is about to   *)
(*             return), "exited" (break), "crashed" (an exception left     *)
(*             graph.invoke and ended the process); "node", "returned"     *)
(*             and "raised" when a node function is called on its own      *)
(*   turn      number of turns started                                     *)
(*   state     the GraphState threaded through the graph, None outside a   *)
(*             turn                                                        *)
(*   initState the state built at lines 191-195 for the current turn       *)
(*   valIn, valOut   argument and outcome of the last validation call      *)
(*   resIn, resOut   argument and outcome of the last resolution call      *)
(*   calls     collaborator calls made so far in the current turn          *)
(*   valArg, resArg  the argument of that call as the call left it         *)
(*   lineRead  the line read at the prompt (line 187)                      *)
(*   result    what graph.invoke returned (line 197)                       *)
(*   printed   the text printed at line 198                                *)
(***************************************************************************)
VARIABLES pc, turn, state, initState, valIn, valOut, resIn, resOut,
          valArg, resArg, lineRead, calls, result, printed

vars == <<pc, turn, state, initState, valIn, valOut, resIn, resOut,
          valArg, resArg, lineRead, calls, result, printed>>

\* a command list without quit
EXIT_COMMANDS_ExitOnly == {<<"e","x","i","t">>}

\* line 188
EXIT_COMMANDS == {<<"e","x","i","t">>, <<"q","u","i","t">>}

Init ==
    /\ pc = "input"
    /\ turn = 0
    /\ state = None
    /\ initState = None
    /\ valIn = None
    /\ valOut = None
    /\ resIn = None
    /\ resOut = None
    /\ valArg = None
    /\ resArg = None
    /\ lineRead = None
    /\ calls = <<>>
    /\ result = None
    /\ printed = None

\* a turn state that keeps the whitespace typed around the line
FreshState_NoStrip(user_input) ==
    GraphState(<<Message("user", user_input)>>, "started", None)

\* lines 191-195: the state built for a turn
FreshState(user_input) ==
    GraphState(<<Message("user", Strip(user_input))>>, "started", None)

\* a node that appends its reply to the list it was handed
ArgAfterCall_InPlace(arg, out) ==
    IF out.kind = "return"
    THEN [arg EXCEPT !.messages = out.state[1].messages]
    ELSE arg

\* The argument of a node call as the call leaves it.  Both nodes build
\* their result with list concatenation and a new dict (lines 62-100 and
\* 150-163) and assign nothing to state, so the argument is what it was.
ArgAfterCall(arg, out) == arg

\* lines 187-195: read a line; leave the loop, or build the state of a turn
ReadLine ==
    /\ pc = "input"
    /\ \E user_input \in InputLines :
          /\ lineRead' = Some(user_input)
          /\ IF Lower(Strip(user_input)) \in EXIT_COMMANDS
             THEN /\ pc' = "exited"
                  /\ UNCHANGED <<turn, state, initState, valIn, valOut,
                                 resIn, resOut, valArg, resArg, calls,
                                 result, printed>>
             ELSE /\ turn < MaxTurns
                  /\ turn' = turn + 1
                  /\ state' = Some(FreshState(user_input))
                  /\ initState' = state'
                  /\ pc' = "ValidateCustomer"
                  /\ valIn' = None
                  /\ valOut' = None
                  /\ resIn' = None
                  /\ resOut' = None
                  /\ valArg' = None
                  /\ resArg' = None
                  /\ calls' = <<>>
                  /\ UNCHANGED <<result, printed>>

\* a path map that sends every status on to ResolveIssue
Route_AlwaysResolve(status) ==
    IF status \in {"validated", "not_found"} THEN "ResolveIssue" ELSE "crashed"

\* a path map with its two targets exchanged
Route_Swapped(status) ==
    IF status = "validated" THEN "END"
    ELSE IF status = "not_found" THEN "ResolveIssue"
    ELSE "crashed"

\* lines 171-178: the conditional edge out of ValidateCustomer; a status
\* outside the path map is an error of the graph
Route(status) ==
    IF status = "validated" THEN "ResolveIssue"
    ELSE IF status = "not_found" THEN "END"
    ELSE "crashed"

\* the graph runs the entry node (line 170) and follows the conditional edge
ValidateCustomer ==
    /\ pc = "ValidateCustomer"
    /\ \E llmOut \in FlowLlmOutcomes, dbOut \in FlowDbOutcomes :
          LET r == validate_customer_node(state[1], llmOut, dbOut) IN
          /\ valIn' = state
          /\ valOut' = Some(r)
          /\ valArg' = Some(ArgAfterCall(state[1], r))
          /\ calls' = calls \o r.calls
          /\ IF r.kind = "raise"
             THEN pc' = "crashed" /\ UNCHANGED state
             ELSE pc' = Route(r.state[1].status) /\ state' = r.state
    /\ UNCHANGED <<turn, initState, resIn, resOut, resArg, lineRead,
                   result, printed>>

\* the graph runs ResolveIssue and follows the edge to END (line 179)
ResolveIssue ==
    /\ pc = "ResolveIssue"
    /\ \E chainOut \in FlowChainOutcomes :
          LET r == resolve_issue_node(state[1], chainOut) IN
          /\ resIn' = state
          /\ resOut' = Some(r)
          /\ resArg' = Some(ArgAfterCall(state[1], r))
          /\ calls' = calls \o r.calls
          /\ IF r.kind = "raise"
             THEN pc' = "crashed" /\ UNCHANGED state
             ELSE pc' = "END" /\ state' = r.state
    /\ UNCHANGED <<turn, initState, valIn, valOut, valArg, lineRead,
                   result, printed>>

\* lines 197-198: graph.invoke returns the final state, the loop prints the
\* content of its last message and goes back to the prompt
PrintReply ==
    /\ pc = "END"
    /\ result' = state
    /\ printed' = Some(state[1].messages[Len(state[1].messages)].content)
    /\ state' = None
    /\ pc' = "input"
    /\ UNCHANGED <<turn, initState, valIn, valOut, resIn, resOut,
                   valArg, resArg, lineRead, calls>>

Next == ReadLine \/ ValidateCustomer \/ ResolveIssue \/ PrintReply

Spec == Init /\ [][Next]_vars

(***************************************************************************)
(* A node function called on its own, on any GraphState and with any       *)
(* behaviour of its collaborators.                                         *)
(***************************************************************************)
MaxMessages == 1

NodeMessages ==
    {Message("user", <<"h","i">>), Message("assistant", <<" ","a"," ">>)}

NodeUserQueries == {None, Some(<<" ","a"," ">>)}

NodeStates ==
    {GraphState(m, s, q) : m \in SeqsUpTo(NodeMessages, MaxMessages),
                           s \in Statuses, q \in NodeUserQueries}

InitNode ==
    /\ pc = "node"
    /\ turn = 0
    /\ state \in {Some(s) : s \in NodeStates}
    /\ initState = state
    /\ valIn = None
    /\ valOut = None
    /\ resIn = None
    /\ resOut = None
    /\ valArg = None
    /\ resArg = None
    /\ lineRead = None
    /\ calls = <<>>
    /\ result = None
    /\ printed = None

CallValidate ==
    /\ pc = "node"
    /\ \E llmOut \in LlmOutcomes, dbOut \in DbOutcomes :
          LET r == validate_customer_node(state[1], llmOut, dbOut) IN
          /\ valIn' = state
          /\ valOut' = Some(r)
          /\ valArg' = Some(ArgAfterCall(state[1], r))
          /\ calls' = r.calls
          /\ pc' = IF r.kind = "raise" THEN "raised" ELSE "returned"
          /\ state' = r.state
    /\ UNCHANGED <<turn, initState, resIn, resOut, resArg, lineRead,
                   result, printed>>

CallResolve ==
    /\ pc = "node"
    /\ \E chainOut \in ChainOutcomes :
          LET r == resolve_issue_node(state[1], chainOut) IN
          /\ resIn' = state
          /\ resOut' = Some(r)
          /\ resArg' = Some(ArgAfterCall(state[1], r))
          /\ calls' = r.calls
          /\ pc' = IF r.kind = "raise" THEN "raised" ELSE "returned"
          /\ state' = r.state
    /\ UNCHANGED <<turn, initState, valIn, valOut, valArg, lineRead,
                   result, printed>>

NextNode == CallValidate \/ CallResolve

SpecNode == InitNode /\ [][NextNode]_vars

(***************************************************************************)
(* Properties.                                                             *)
(***************************************************************************)
\* the validation call has ended, and the state it returned
ValEnded == valOut # None

ValReturned == valOut # None /\ valOut[1].kind = "return"

ValState == valOut[1].state[1]

ValInput == valIn[1]

\* the resolution call has ended, and the state it returned
ResEnded == resOut # None

ResReturned == resOut # None /\ resOut[1].kind = "return"

ResState == resOut[1].state[1]

ResInput == resIn[1]

Last(seq) == seq[Len(seq)]

Min(S) == CHOOSE i \in S : \A j \in S : i <= j

\* msgs is before followed by exactly one assistant message
OneAssistantAppended(before, msgs) ==
    /\ Len(msgs) = Len(before) + 1
    /\ SubSeq(msgs, 1, Len(before)) = before
    /\ Last(msgs).role = "assistant"

\* the calls of one collaborator among the calls of a node
CallsTo(callee, cs) == {i \in 1..Len(cs) : cs[i].callee = callee}

\* a collaborator of the validation call failed
ValCollaboratorFailed ==
    \E i \in 1..Len(valOut[1].calls) : valOut[1].calls[i].out.kind = "raise"

\* the store answered the count query with a text that is no Python literal
CountUnparsable ==
    \E i \in CallsTo("db.run", valOut[1].calls) :
        /\ valOut[1].calls[i].out.kind = "return"
        /\ ~literal_eval(valOut[1].calls[i].out.text).ok

\* C1: the Validation Step never raises: whatever the model and the store
\* do, the call ends by returning a state, and when the model call, the
\* count query or the parsing of its result failed that state has status
\* not_found and one more message than the input.
C1_ValidationNeverRaises ==
    ValEnded =>
        /\ valOut[1].kind = "return"
        /\ (ValCollaboratorFailed \/ CountUnparsable) =>
              /\ ValState.status = "not_found"
              /\ OneAssistantAppended(ValInput.messages, ValState.messages)

\* C2: the Resolution Step always returns, with status resolved and with
\* the input messages followed by exactly one new assistant message.
C2_ResolutionAlwaysResolved ==
    ResEnded =>
        /\ resOut[1].kind = "return"
        /\ ResState.status = "resolved"
        /\ OneAssistantAppended(ResInput.messages, ResState.messages)

\* C2 witness: the chain raised and the node still returned
C2_Witness ==
    /\ ResReturned
    /\ \E i \in CallsTo("sql_chain.invoke", resOut[1].calls) :
          resOut[1].calls[i].out.kind = "raise"

\* C3: within a turn the status only changes along started -> validated,
\* validated -> resolved or started -> not_found.
StatusMoves ==
    {<<"started", "validated">>, <<"validated", "resolved">>,
     <<"started", "not_found">>}

C3_StatusTransitions ==
    [][(state # None /\ state' # None /\ state'[1].status # state[1].status)
          => <<state[1].status, state'[1].status>> \in StatusMoves]_vars

\* C3 witness: a turn that went started -> validated -> resolved
C3_Witness ==
    /\ pc = "END"
    /\ initState[1].status = "started"
    /\ ValReturned /\ ValState.status = "validated"
    /\ state[1].status = "resolved"

\* C4: validation runs first; resolution runs exactly when validation
\* returned validated, after it and on the state it returned; when
\* validation returns not_found the flow returns that very state.
TurnOver == pc = "END" \/ (pc = "input" /\ turn > 0)

C4_FlowOrder ==
    /\ pc = "ValidateCustomer" => (valOut = None /\ resOut = None)
    /\ ResEnded =>
          /\ ValReturned
          /\ ValState.status = "validated"
          /\ resIn = valOut[1].state
    /\ (TurnOver /\ ValReturned /\ ValState.status = "validated") => ResEnded
    /\ (pc = "END" /\ ValReturned /\ ValState.status = "not_found") =>
          (state = valOut[1].state /\ resOut = None)
    /\ (pc = "input" /\ turn > 0 /\ ValReturned /\ ValState.status = "not_found") =>
          (result = valOut[1].state /\ resOut = None)

\* C4 witness: a turn stopped at not_found and handed back validation's state
C4_Witness ==
    /\ pc = "input"
    /\ ValReturned
    /\ ValState.status = "not_found"
    /\ result = valOut[1].state

\* C5: a state returned by the Validation Step has status validated or
\* not_found, whatever the status of its input.
C5_ValidationStatus ==
    ValReturned => ValState.status \in {"validated", "not_found"}

\* C5 witness: validation was called on a state already resolved and failed
\* on the store
C5_Witness ==
    /\ pc = "returned"
    /\ ValReturned
    /\ ValInput.status = "resolved"
    /\ \E i \in CallsTo("db.run", valOut[1].calls) :
          valOut[1].calls[i].out.kind = "raise"

\* the reply of the model and the answer of the store in the validation call
LlmReply == valOut[1].calls[Min(CallsTo("llm.invoke", valOut[1].calls))].out

DbAnswer == valOut[1].calls[Min(CallsTo("db.run", valOut[1].calls))].out

StoreQueried == CallsTo("db.run", valOut[1].calls) # {}

\* text is NONE in some letter case between two runs of whitespace
IsNoneReply(text) ==
    \E i \in 1..Len(text) :
        /\ i + 3 <= Len(text)
        /\ LowerChar(text[i]) = "n" /\ LowerChar(text[i + 1]) = "o"
        /\ LowerChar(text[i + 2]) = "n" /\ LowerChar(text[i + 3]) = "e"
        /\ \A k \in 1..Len(text) : (k < i \/ k > i + 3) => text[k] \in Whitespace

\* the store's answer reads as rows whose first value is a whole number
ParsableCount ==
    /\ StoreQueried
    /\ DbAnswer.kind = "return"
    /\ LET p == literal_eval(DbAnswer.text) IN
       /\ p.ok
       /\ p.val.t \in {"list", "tuple"} /\ p.val.v # <<>>
       /\ p.val.v[1].t \in {"list", "tuple"} /\ p.val.v[1].v # <<>>
       /\ p.val.v[1].v[1].t = "int"

CountValue == literal_eval(DbAnswer.text).val.v[1].v[1].v

\* C6: with a clause other than NONE and a count the store answered, a
\* count above 0 gives validated with the messages untouched and user_query
\* set to the last input message, and a count of 0 gives not_found with the
\* lookup apology appended as one assistant message.
C6_CountDecides ==
    (ValReturned /\ ParsableCount) =>
        /\ CountValue > 0 =>
              /\ ValState.status = "validated"
              /\ ValState.messages = ValInput.messages
              /\ ValState.user_query = Some(Last(ValInput.messages).content)
        /\ CountValue = 0 =>
              /\ ValState.status = "not_found"
              /\ ValState.messages =
                    Append(ValInput.messages, Message("assistant", LOOKUP_APOLOGY))

\* C6 witness: the store counted three rows and the customer was validated
C6_Witness ==
    /\ ValReturned
    /\ ParsableCount
    /\ CountValue = 3
    /\ ValState.status = "validated"

\* C7: a reply that is NONE in any letter case, with any whitespace around
\* it, gives not_found, appends exactly the extraction apology as an
\* assistant message, sets user_query to the user's message and runs no
\* query against the store.
C7_NoneReply ==
    (ValEnded /\ CallsTo("llm.invoke", valOut[1].calls) # {}
        /\ LlmReply.kind = "return" /\ IsNoneReply(LlmReply.text)) =>
        /\ valOut[1].kind = "return"
        /\ ValState.status = "not_found"
        /\ ValState.messages =
              Append(ValInput.messages, Message("assistant", EXTRACTION_APOLOGY))
        /\ ValState.user_query = Some(Last(ValInput.messages).content)
        /\ ~StoreQueried

\* C7 witness: the model answered none in lower case with whitespace around
C7_Witness ==
    /\ ValReturned
    /\ CallsTo("llm.invoke", valOut[1].calls) # {}
    /\ LlmReply.kind = "return"
    /\ IsNoneReply(LlmReply.text)
    /\ LlmReply.text # NONE_MARKER
    /\ Upper(LlmReply.text) # LlmReply.text
    /\ Len(LlmReply.text) > 4

\* the words of an SQL text: the runs of letters, digits and underscores
\* outside single-quoted literals
IsWordChar(c) ==
    IndexIn(c, LowerLetters) > 0 \/ IndexIn(c, UpperLetters) > 0
        \/ IsDigit(c) \/ c = "_"

IsWhere(word) ==
    /\ Len(word) = 5
    /\ LowerChar(word[1]) = "w" /\ LowerChar(word[2]) = "h"
    /\ LowerChar(word[3]) = "e" /\ LowerChar(word[4]) = "r"
    /\ LowerChar(word[5]) = "e"

RECURSIVE CountWhere(_, _, _, _)
CountWhere(text, i, inQuote, word) ==
    IF i > Len(text) THEN (IF IsWhere(word) THEN 1 ELSE 0)
    ELSE IF inQuote THEN CountWhere(text, i + 1, text[i] # "'", <<>>)
    ELSE IF IsWordChar(text[i])
    THEN CountWhere(text, i + 1, FALSE, Append(word, text[i]))
    ELSE (IF IsWhere(word) THEN 1 ELSE 0)
            + CountWhere(text, i + 1, text[i] = "'", <<>>)

WhereTokens(text) == CountWhere(text, 1, FALSE, <<>>)

\* the first word of the text is WHERE
BeginsWithWhere(text) ==
    LET t == LStripSet(text, Whitespace) IN
    /\ Len(t) >= 5
    /\ IsWhere(SubSeq(t, 1, 5))
    /\ (Len(t) > 5 => ~IsWordChar(t[6]))

AfterCountPrefix(query) == SubSeq(query, Len(COUNT_QUERY_PREFIX) + 1, Len(query))

\* C8: the count query built from a clause that does not begin with a WHERE
\* token holds exactly one WHERE token, directly after SELECT COUNT(*) FROM
\* customer_info; a clause that begins with WHERE gets no second one.
C8_ExactlyOneWhere ==
    (ValEnded /\ valOut[1].query # None) =>
        LET query == valOut[1].query[1]
            clause == LlmReply.text
        IN  /\ StartsWith(query, COUNT_QUERY_PREFIX)
            /\ BeginsWithWhere(AfterCountPrefix(query))
            /\ ~BeginsWithWhere(clause) => WhereTokens(query) = 1
            /\ BeginsWithWhere(clause) => WhereTokens(query) = WhereTokens(clause)

\* the result of the chain in the resolution call, and the reply appended
ChainCalled == ResEnded /\ CallsTo("sql_chain.invoke", resOut[1].calls) # {}

ChainResult == resOut[1].calls[Min(CallsTo("sql_chain.invoke", resOut[1].calls))].out

ResReply == Last(ResState.messages).content

\* the first character of the text that is no whitespace is "["
LooksLikeList(text) ==
    \E i \in 1..Len(text) :
        /\ text[i] = "["
        /\ \A k \in 1..(i - 1) : text[k] \in Whitespace

\* the text reads as a sequence whose first element is a tuple of three
RowOfThree(text) ==
    LET p == literal_eval(text) IN
    /\ p.ok
    /\ p.val.t \in {"list", "tuple"} /\ p.val.v # <<>>
    /\ p.val.v[1].t = "tuple" /\ Len(p.val.v[1].v) = 3

FirstRow(text) == literal_eval(text).val.v[1].v

C9_ROW_TEXT ==
    <<"[","(","'","A","'",","," ","'","N","'",","," ","'","1","'",")","]">>

C9_ROW_REPLY ==
    <<"F","i","n","a","l"," ","A","n","s","w","e","r",":"," ","T","h","e",
      "r","e"," ","i","s"," ","a"," ","'","N","'"," ","i","s","s","u","e",
      " ","r","e","p","o","r","t","e","d"," ","a","t"," ","y","o","u","r",
      " ","a","d","d","r","e","s","s"," ","(","A",")","."," ","I","t"," ",
      "i","s"," ","e","x","p","e","c","t","e","d"," ","t","o"," ","b","e",
      " ","r","e","s","o","l","v","e","d"," ","b","y"," ","1",".">>

C10_PLAIN_TEXT ==
    <<" ","H","i","\n">>

\* C9: for a chain result that starts with "[": when it reads as a sequence
\* whose first element is a tuple (address, issue, restoration timestamp)
\* the reply is Final Answer: There is a '<issue>' issue reported at your
\* address (<address>). It is expected to be resolved by <timestamp>. ; in
\* every other case the reply is the raw text after Final Answer: .
C9_ListReply ==
    (ResReturned /\ ChainCalled /\ ChainResult.kind = "return"
        /\ LooksLikeList(ChainResult.text)) =>
        LET text == ChainResult.text IN
        /\ RowOfThree(text) =>
              ResReply = FINAL_ANSWER_PREFIX \o HUMAN_MSG_1 \o Str(FirstRow(text)[2])
                            \o HUMAN_MSG_2 \o Str(FirstRow(text)[1])
                            \o HUMAN_MSG_3 \o Str(FirstRow(text)[3]) \o HUMAN_MSG_4
        /\ ~RowOfThree(text) => ResReply = FINAL_ANSWER_PREFIX \o text
        /\ text = C9_ROW_TEXT => ResReply = C9_ROW_REPLY

\* C9 witness: the chain returned one row of three and the sentence was built
C9_Witness ==
    /\ ResReturned /\ ChainCalled
    /\ ChainResult.kind = "return"
    /\ ChainResult.text = C9_ROW_TEXT
    /\ ResReply = C9_ROW_REPLY

\* C10: a chain result whose first character after leading whitespace is
\* not "[" is appended unchanged, without a Final Answer: prefix added.
C10_PlainReply ==
    (ResReturned /\ ChainCalled /\ ChainResult.kind = "return"
        /\ ~LooksLikeList(ChainResult.text)) =>
        ResReply = ChainResult.text

\* C10 witness: plain text with whitespace around it came back as it was
C10_Witness ==
    /\ ResReturned /\ ChainCalled
    /\ ChainResult.kind = "return"
    /\ ChainResult.text = C10_PLAIN_TEXT
    /\ ResReply = C10_PLAIN_TEXT
    /\ ~StartsWith(ResReply, FINAL_ANSWER_PREFIX)

\* the assistant messages among msgs
AssistantCount(msgs) == Cardinality({i \in 1..Len(msgs) : msgs[i].role = "assistant"})

\* the model answered NONE in the validation call of the last turn
NoneTurn ==
    /\ ValEnded
    /\ CallsTo("llm.invoke", valOut[1].calls) # {}
    /\ LlmReply.kind = "return"
    /\ IsNoneReply(LlmReply.text)

ApologyOnly(st) ==
    /\ st.messages =
          Append(initState[1].messages, Message("assistant", EXTRACTION_APOLOGY))
    /\ AssistantCount(st.messages) = 1

\* C11: in a turn where the model answers NONE, neither the count query nor
\* the resolution chain is invoked, and the final state of the flow holds
\* exactly one assistant message, the extraction apology.
C11_NoneTurnStops ==
    NoneTurn =>
        /\ CallsTo("db.run", calls) = {}
        /\ CallsTo("sql_chain.invoke", calls) = {}
        /\ resOut = None
        /\ pc \in {"END", "input", "exited"}
        /\ pc = "END" => ApologyOnly(state[1])
        /\ pc \in {"input", "exited"} => ApologyOnly(result[1])

\* C11 witness: a turn in which the model answered NONE has been printed
C11_Witness ==
    /\ pc = "input"
    /\ NoneTurn
    /\ printed = Some(EXTRACTION_APOLOGY)
    /\ Len(calls) = 1

\* line is the word in some letter case between two runs of whitespace
IsWordPadded(line, word) ==
    \E i \in 1..Len(line) :
        /\ i + Len(word) - 1 <= Len(line)
        /\ \A k \in 1..Len(word) : LowerChar(line[i + k - 1]) = word[k]
        /\ \A k \in 1..Len(line) :
              (k < i \/ k > i + Len(word) - 1) => line[k] \in Whitespace

IsExitLine(line) ==
    IsWordPadded(line, <<"e","x","i","t">>) \/ IsWordPadded(line, <<"q","u","i","t">>)

\* C12: a line that is exit or quit, trimmed and in any letter case, ends
\* the loop with no state built and no flow started, and nothing runs after
\* it; every other line starts exactly one flow, on a state built for it;
\* the flow is started by nothing else.
C12_ExitEndsLoop ==
    [][/\ pc # "exited"
       /\ pc = "input" =>
             /\ lineRead' # None
             /\ IF IsExitLine(lineRead'[1])
                THEN /\ pc' = "exited"
                     /\ turn' = turn
                     /\ UNCHANGED <<state, initState, valOut, resOut, calls>>
                ELSE /\ pc' = "ValidateCustomer"
                     /\ turn' = turn + 1
                     /\ state' # None /\ initState' = state'
                     /\ state'[1].status = "started"
                     /\ Len(state'[1].messages) = 1
                     /\ state'[1].user_query = None
                     /\ calls' = <<>>
       /\ pc # "input" => (turn' = turn /\ lineRead' = lineRead)]_vars

\* C12 witness: the loop was left on a padded, capitalised quit after one turn
C12_Witness ==
    /\ pc = "exited"
    /\ turn = 1
    /\ state = None
    /\ IsExitLine(lineRead[1])
    /\ lineRead[1] \notin EXIT_COMMANDS

TerminalStatuses == {"not_found", "resolved"}

NodeAboutToRun == pc \in {"ValidateCustomer", "ResolveIssue"}

\* the turn has stopped: graph.invoke is returning, or an exception left it
TurnStopped == pc \in {"END", "crashed"}

\* within the turn each collaborator was invoked at most once
InvokedAtMostOnce ==
    \A callee \in {"llm.invoke", "db.run", "sql_chain.invoke"} :
        Cardinality(CallsTo(callee, calls)) <= 1

\* no node is about to run on a state whose status is terminal
NoNodeAfterTerminal ==
    NodeAboutToRun => state[1].status \notin TerminalStatuses

\* C13: with collaborators that do not hang, a turn that stops has stopped
\* in a terminal status (not_found or resolved), no node runs once a
\* terminal status is reached, and within one turn the extraction, the count
\* query and the resolution chain are each invoked at most once.
C13_TurnEndsTerminal ==
    /\ TurnStopped => state[1].status \in TerminalStatuses
    /\ NoNodeAfterTerminal
    /\ InvokedAtMostOnce

IsPrefix(before, msgs) ==
    /\ Len(before) <= Len(msgs)
    /\ SubSeq(msgs, 1, Len(before)) = before

\* C14: within a turn messages only grows at its end: the messages of the
\* turn's initial state, and of a node's input, are a prefix of the messages
\* of every state a node returns and of the state the graph threads, and a
\* node leaves the state object it was handed as it was.
C14_AppendOnly ==
    /\ state # None => IsPrefix(initState[1].messages, state[1].messages)
    /\ ValReturned =>
          /\ IsPrefix(initState[1].messages, ValState.messages)
          /\ IsPrefix(ValInput.messages, ValState.messages)
    /\ ResReturned =>
          /\ IsPrefix(initState[1].messages, ResState.messages)
          /\ IsPrefix(ResInput.messages, ResState.messages)
    /\ ValEnded => valArg = valIn
    /\ ResEnded => resArg = resIn

\* C14 witness: the chain failed in a validated turn and the reply was
\* appended after the user's message
C14_Witness ==
    /\ pc = "END"
    /\ ResReturned
    /\ ChainResult.kind = "raise"
    /\ Len(state[1].messages) = Len(initState[1].messages) + 1
    /\ resArg = resIn

\* C15: every state the Validation Step returns has user_query equal to the
\* content of the last message of its input, and the Resolution Step
\* returns the user_query of its input, when the chain answers and when it
\* fails.
C15_UserQuery ==
    /\ ValReturned =>
          ValState.user_query = Some(Last(ValInput.messages).content)
    /\ ResReturned => ResState.user_query = ResInput.user_query

\* C15 witness: the chain failed and the query came back as it went in
C15_Witness ==
    /\ ResReturned /\ ChainCalled
    /\ ChainResult.kind = "raise"
    /\ ResInput.user_query # None
    /\ ResState.user_query = ResInput.user_query

\* st is the turn's initial state with one assistant message after it
OneReplyAdded(st) ==
    /\ Len(st.messages) = Len(initState[1].messages) + 1
    /\ IsPrefix(initState[1].messages, st.messages)
    /\ Last(st.messages).role = "assistant"

\* C16: when a turn completes, on the not_found and on the resolved path,
\* the final state holds exactly one message more than the initial state,
\* that last message is an assistant message appended in the turn, and it is
\* the text the loop prints.
C16_ReplyPrinted ==
    /\ pc = "END" => OneReplyAdded(state[1])
    /\ (pc \in {"input", "exited"} /\ result # None) =>
          /\ OneReplyAdded(result[1])
          /\ result[1].status \in TerminalStatuses
          /\ printed = Some(Last(result[1].messages).content)

\* C16 witness: a resolved turn has been printed
C16_Witness ==
    /\ pc = "input"
    /\ result # None
    /\ result[1].status = "resolved"
    /\ Len(result[1].messages) = 2
    /\ printed = Some(result[1].messages[2].content)

\* text is line without the whitespace at its two ends
IsTrimOf(text, line) ==
    /\ text # <<>> => (text[1] \notin Whitespace /\ Last(text) \notin Whitespace)
    /\ \E i \in 1..(Len(line) + 1) :
          /\ i + Len(text) - 1 <= Len(line)
          /\ SubSeq(line, i, i + Len(text) - 1) = text
          /\ \A k \in 1..Len(line) :
                (k < i \/ k > i + Len(text) - 1) => line[k] \in Whitespace

\* C17: at the start of every turn, whatever the earlier turns left behind,
\* the state handed to the flow holds exactly one message, the user message
\* with the trimmed input line, status started and no user_query.
C17_FreshStateEachTurn ==
    pc = "ValidateCustomer" =>
        /\ state # None
        /\ initState = state
        /\ Len(state[1].messages) = 1
        /\ state[1].messages[1].role = "user"
        /\ IsTrimOf(state[1].messages[1].content, lineRead[1])
        /\ state[1].status = "started"
        /\ state[1].user_query = None
        /\ calls = <<>>

\* C17 witness: a second turn starts on a padded line after a resolved turn
C17_Witness ==
    /\ pc = "ValidateCustomer"
    /\ turn = 2
    /\ result # None
    /\ result[1].status = "resolved"
    /\ Len(result[1].messages) = 2
    /\ Len(lineRead[1]) > Len(state[1].messages[1].content)

=============================================================================
